---- MODULE Spec2Model ----
(***************************************************************************)
(* Match lifecycle coordinator of backend/game/gameapp/match_objects/      *)
(* match.py: one Match object (a session), its Waiting Timer, its Match    *)
(* Runner, the side effects of resolution, and the registry function       *)
(* match_decided.                                                          *)
(*                                                                         *)
(* Every handler of Match that takes self.lock for its whole body is one   *)
(* action.  Two handlers are finer grained, because the code makes them    *)
(* so: ai_connected appends to users and to online BEFORE it takes the     *)
(* lock, so these two appends are separate unlocked steps; user_decided    *)
(* is the one locked handler that reads len(users) both before and after   *)
(* its own appends, so it is modelled statement by statement while it      *)
(* holds the lock and the unlocked appends of ai_connected may fall        *)
(* between its statements.  Every other locked handler reads len(users)    *)
(* or len(online) at most once, so an unlocked append landing inside it    *)
(* has the effect of one landing just before or just after it.             *)
(*                                                                         *)
(* Calls that wait for the lock in a thread of their own are in flight     *)
(* until handled: the timer thread's timed_out (firing) and a runner's     *)
(* alert_winner (alert).  The effects of resolution on the database, the   *)
(* sockets and the registry are counted per seat (wins, loses, kicked,     *)
(* roster, room_deleted, in_dict); an IndexError leaves the handler with   *)
(* the writes made so far and the outcome "raise".                         *)
(***************************************************************************)
EXTENDS Integers, Sequences, FiniteSets, TLC

\* ---------------------------------------------------------------- bounds
NumHumans == 3          \* human competitor identities 1..NumHumans
MaxAiJoins == 1         \* ai_connected calls per session
MaxScore == 1           \* score at which the Match Runner concludes
NumContexts == 3        \* execution contexts calling match_decided

\* ------------------------------------------------------------- constants
NOT_STARTED == 0
WAITING == 1
MATCH == 2
FINISHED == 3
AI_ID == 0

Humans == 1..NumHumans
MaxUsers == 2 + MaxAiJoins
Seats == 0..(MaxUsers - 1)

VARIABLES
    stage,            \* Match.stage
    users,            \* Match.users: sequence of competitor ids
    online,           \* Match.online: sequence of booleans
    match_process,    \* Match.match_process: "none" | "running" | "stopped" | "concluded"
    scores,           \* what match_process.get_scores() returns
    waiting_process,  \* Match.waiting_process: "idle" | "armed" | "fired" | "stopped"
    lock,             \* Match.lock: "free" or the pc of the user_decided call holding it
    decArg,           \* the user of the user_decided call holding the lock (0: none)
    aiPc,             \* position of the ai_connected call in flight
    aiJoins,          \* ai_connected calls begun
    firing,           \* a timed_out call of the timer thread is in flight
    alert,            \* winner_idx of the alert_winner call in flight (-1: none)
    orphans,          \* runners still running after match_process was replaced
    started,          \* MatchProcess objects created and started
    wins,             \* __set_win executions per seat index
    report,           \* the last result record posted by __set_win
    loses,            \* __set_lose executions per seat index
    kicked,           \* sio_disconnect calls per seat index
    roster,           \* registrations of a winner into the next match
    room_deleted,     \* deletions of the bracket room
    in_dict,          \* match_dict still holds this session
    ret,              \* outcome of the last handler
    winner_match,     \* Match.match.winner_match is not None
    regDict,          \* match_dict: the object registered under the next match id (0: none)
    regObjs,          \* Match objects created by match_decided: their users
    regPc             \* position of every context inside match_decided

sessVars == <<stage, users, online, match_process, scores, waiting_process,
              orphans, started, wins, report, loses, kicked, roster,
              room_deleted, in_dict, ret>>
ctlVars == <<lock, decArg, aiPc, aiJoins, firing, alert, winner_match>>
regVars == <<regDict, regObjs, regPc>>
vars == <<sessVars, ctlVars, regVars>>

\* ----------------------------------------------------- python list access
\* 1-based position of python index i in seq (negative indices count from the end)
PyPos(seq, i) == IF i >= 0 THEN i + 1 ELSE Len(seq) + i + 1
PyOk(seq, i) == PyPos(seq, i) \in 1..Len(seq)
PyAt(seq, i) == seq[PyPos(seq, i)]

\* ------------------------------------------------ the Match object as a record
Cur ==
    [stage |-> stage, users |-> users, online |-> online,
     match_process |-> match_process, scores |-> scores,
     waiting_process |-> waiting_process, orphans |-> orphans,
     started |-> started, wins |-> wins, report |-> report,
     loses |-> loses, kicked |-> kicked,
     roster |-> roster, room_deleted |-> room_deleted, in_dict |-> in_dict,
     ret |-> ret, winner_match |-> winner_match]

Apply(r) ==
    /\ stage' = r.stage
    /\ users' = r.users
    /\ online' = r.online
    /\ match_process' = r.match_process
    /\ scores' = r.scores
    /\ waiting_process' = r.waiting_process
    /\ orphans' = r.orphans
    /\ started' = r.started
    /\ wins' = r.wins
    /\ report' = r.report
    /\ loses' = r.loses
    /\ kicked' = r.kicked
    /\ roster' = r.roster
    /\ room_deleted' = r.room_deleted
    /\ in_dict' = r.in_dict
    /\ ret' = r.ret

Raise(r) == [r EXCEPT !.ret = <<r.ret[1], "raise">>]
Raised(r) == r.ret[2] = "raise"

\* ------------------------------------------------ Waiting Timer, Match Runner
waiting_start(r) == [r EXCEPT !.waiting_process = "armed"]

waiting_stop(r) ==
    IF r.waiting_process \in {"armed", "fired"}
    THEN [r EXCEPT !.waiting_process = "stopped"]
    ELSE r

process_stop(r) ==
    IF r.match_process = "running"
    THEN [r EXCEPT !.match_process = "stopped"]
    ELSE r

get_scores(r) == IF r.match_process # "none" THEN r.scores ELSE <<0, 0>>

\* ------------------------------------------------------ private methods
\* mutant: the stage is set to WAITING without starting the Waiting Timer
set_stage_waiting_no_timer(r) == [r EXCEPT !.stage = WAITING]

set_stage_waiting(r) == waiting_start([r EXCEPT !.stage = WAITING])

set_stage_match(r) ==
    [r EXCEPT !.stage = MATCH,
              !.orphans = IF r.match_process = "running" THEN @ + 1 ELSE @,
              !.match_process = "running",
              !.scores = <<0, 0>>,
              !.started = @ + 1]

get_user_idx(us, id) ==
    IF \E k \in 1..Len(us) : us[k] = id
    THEN (CHOOSE k \in 1..Len(us) :
              us[k] = id /\ \A j \in 1..(k - 1) : us[j] # id) - 1
    ELSE -1

set_lose(r, loser_idx) ==
    IF Raised(r) THEN r
    ELSE IF ~PyOk(r.users, loser_idx) THEN Raise(r)
    ELSE [r EXCEPT !.loses[PyPos(r.users, loser_idx) - 1] = @ + 1,
                   !.stage = FINISHED]

\* mutant: the bracket room is deleted even when a next match exists
set_win_deletes_room(r, winner_idx) ==
    IF Raised(r) THEN r
    ELSE IF \/ ~PyOk(r.users, winner_idx)
            \/ ~PyOk(r.users, 1 - winner_idx)
            \/ Len(r.users) < 2
    THEN Raise(r)
    ELSE [r EXCEPT
            !.wins[PyPos(r.users, winner_idx) - 1] = @ + 1,
            !.report = [winner_id |-> PyAt(r.users, winner_idx),
                        player1_score |-> get_scores(r)[1],
                        player2_score |-> get_scores(r)[2]],
            !.roster = IF r.winner_match THEN @ + 1 ELSE @,
            !.room_deleted = @ + 1,
            !.in_dict = FALSE,
            !.stage = FINISHED]

set_win(r, winner_idx) ==
    IF Raised(r) THEN r
    ELSE IF \/ ~PyOk(r.users, winner_idx)
            \/ ~PyOk(r.users, 1 - winner_idx)
            \/ Len(r.users) < 2
    THEN Raise(r)
    ELSE [r EXCEPT
            !.wins[PyPos(r.users, winner_idx) - 1] = @ + 1,
            !.report = [winner_id |-> PyAt(r.users, winner_idx),
                        player1_score |-> get_scores(r)[1],
                        player2_score |-> get_scores(r)[2]],
            !.roster = IF r.winner_match THEN @ + 1 ELSE @,
            !.room_deleted = IF r.winner_match THEN @ ELSE @ + 1,
            !.in_dict = FALSE,
            !.stage = FINISHED]

sio_disconnect_user(r, idx) ==
    IF Raised(r) THEN r
    ELSE IF ~PyOk(r.users, idx) THEN Raise(r)
    ELSE [r EXCEPT !.kicked[PyPos(r.users, idx) - 1] = @ + 1]

\* mutant: the winner instead of the loser is disconnected
set_win_and_lose_kicks_winner(r, winner_idx) ==
    sio_disconnect_user(set_lose(set_win(r, winner_idx), 1 - winner_idx),
                        winner_idx)

set_win_and_lose(r, winner_idx) ==
    sio_disconnect_user(set_lose(set_win(r, winner_idx), 1 - winner_idx),
                        1 - winner_idx)

Begin(r, h) == [r EXCEPT !.ret = <<h, "None">>]
Ret(r, v) == IF Raised(r) THEN r ELSE [r EXCEPT !.ret = <<r.ret[1], v>>]

\* ------------------------------------------------------------- handlers
\* user_decided, statement by statement (the caller holds the lock)
\* mutant: the capacity test is off by one
user_decided_full_off_by_one(r) == Len(r.users) > 2

user_decided_full(r) == Len(r.users) >= 2

user_decided_append_users(r, u) == [r EXCEPT !.users = Append(@, u)]

user_decided_append_online(r) == [r EXCEPT !.online = Append(@, FALSE)]

user_decided_if_waiting(r) ==
    IF Len(r.users) = 2
    THEN IF ~PyOk(r.online, 0) THEN Raise(r)
         ELSE IF r.online[1] THEN Ret(set_stage_waiting(r), "True")
         ELSE Ret(r, "True")
    ELSE Ret(r, "True")

user_decided(r, u) ==
    IF user_decided_full(r) THEN Ret(r, "False")
    ELSE user_decided_if_waiting(
             user_decided_append_online(user_decided_append_users(r, u)))

\* mutant: a late joiner is marked online but not credited
user_connected_no_auto_win(r, u) ==
    LET idx == get_user_idx(r.users, u) IN
    IF idx = -1 THEN Ret(r, "False")
    ELSE IF ~PyOk(r.online, idx) THEN Raise(r)
    ELSE IF PyAt(r.online, idx) THEN Ret(r, "True")
    ELSE LET r1 == [r EXCEPT !.online[idx + 1] = TRUE] IN
         IF r1.stage = FINISHED THEN Ret(r1, "True")
         ELSE IF Len(r1.online) = 2
         THEN IF ~r1.online[1] \/ ~r1.online[2]
              THEN Ret(set_stage_waiting(r1), "True")
              ELSE Ret(set_stage_match(waiting_stop(r1)), "True")
         ELSE Ret(r1, "True")

user_connected(r, u) ==
    LET idx == get_user_idx(r.users, u) IN
    IF idx = -1 THEN Ret(r, "False")
    ELSE IF ~PyOk(r.online, idx) THEN Raise(r)
    ELSE IF PyAt(r.online, idx) THEN Ret(r, "True")
    ELSE LET r1 == [r EXCEPT !.online[idx + 1] = TRUE] IN
         IF r1.stage = FINISHED THEN Ret(set_win(r1, idx), "True")
         ELSE IF Len(r1.online) = 2
         THEN IF ~r1.online[1] \/ ~r1.online[2]
              THEN Ret(set_stage_waiting(r1), "True")
              ELSE Ret(set_stage_match(waiting_stop(r1)), "True")
         ELSE Ret(r1, "True")

\* the part of ai_connected that runs under the lock
ai_connected_locked(r) == set_stage_match(waiting_stop(r))

\* mutant: only a session that never started waiting is left alone
timed_out_no_stage_check(r) ==
    IF r.stage = NOT_STARTED THEN r
    ELSE IF ~PyOk(r.online, 0) THEN Raise(r)
    ELSE IF r.online[1] /\ ~PyOk(r.online, 1) THEN Raise(r)
    ELSE IF r.online[1] /\ r.online[2] THEN r
    ELSE set_win_and_lose([r EXCEPT !.stage = FINISHED],
                          IF r.online[1] THEN 0 ELSE 1)

timed_out(r) ==
    IF r.stage # WAITING THEN r
    ELSE IF ~PyOk(r.online, 0) THEN Raise(r)
    ELSE IF r.online[1] /\ ~PyOk(r.online, 1) THEN Raise(r)
    ELSE IF r.online[1] /\ r.online[2] THEN r
    ELSE set_win_and_lose([r EXCEPT !.stage = FINISHED],
                          IF r.online[1] THEN 0 ELSE 1)

user_disconnected(r, u) ==
    IF r.stage = NOT_STARTED \/ r.stage = FINISHED THEN r
    ELSE IF r.stage = WAITING
    THEN LET idx == get_user_idx(r.users, u) IN
         IF idx = -1 THEN r
         ELSE IF ~PyOk(r.online, idx) THEN Raise(r)
         ELSE IF PyAt(r.online, idx)
         THEN set_lose([waiting_stop(r) EXCEPT !.stage = FINISHED], idx)
         ELSE r
    ELSE LET loser_idx == get_user_idx(r.users, u) IN
         set_win(set_lose([process_stop(r) EXCEPT !.stage = FINISHED], loser_idx),
                 1 - loser_idx)

alert_winner(r, winner_idx) ==
    IF r.stage = FINISHED THEN r
    ELSE set_win_and_lose([r EXCEPT !.stage = FINISHED], winner_idx)

NoReport == [winner_id |-> -1, player1_score |-> -1, player2_score |-> -1]

\* Match.__init__
MatchInit ==
    [stage |-> NOT_STARTED, users |-> <<>>, online |-> <<>>,
     match_process |-> "none", scores |-> <<0, 0>>,
     waiting_process |-> "idle", orphans |-> 0, started |-> 0,
     wins |-> [i \in Seats |-> 0], report |-> NoReport,
     loses |-> [i \in Seats |-> 0], kicked |-> [i \in Seats |-> 0], roster |-> 0,
     room_deleted |-> 0, in_dict |-> TRUE, ret |-> <<"init", "None">>,
     winner_match |-> FALSE]

\* ------------------------------------------------------------------ Init
Init ==
    /\ stage = NOT_STARTED
    /\ users = <<>>
    /\ online = <<>>
    /\ match_process = "none"
    /\ scores = <<0, 0>>
    /\ waiting_process = "idle"
    /\ lock = "free"
    /\ decArg = 0
    /\ aiPc = "idle"
    /\ aiJoins = 0
    /\ firing = FALSE
    /\ alert = -1
    /\ orphans = 0
    /\ started = 0
    /\ wins = [i \in Seats |-> 0]
    /\ report = NoReport
    /\ loses = [i \in Seats |-> 0]
    /\ kicked = [i \in Seats |-> 0]
    /\ roster = 0
    /\ room_deleted = 0
    /\ in_dict = TRUE
    /\ ret = <<"init", "None">>
    /\ winner_match \in BOOLEAN
    /\ regDict = 0
    /\ regObjs = <<>>
    /\ regPc = [c \in 1..NumContexts |-> "idle"]

\* --------------------------------------------------------------- actions
\* identities are only compared for equality, so the k-th human decided
\* (or turned away) is named k
UserDecidedEnter(u) ==
    /\ lock = "free"
    /\ u = Cardinality({k \in 1..Len(users) : users[k] # AI_ID}) + 1
    /\ IF user_decided_full(Cur)
       THEN /\ Apply(Ret(Begin(Cur, "user_decided"), "False"))
            /\ UNCHANGED <<lock, decArg>>
       ELSE /\ lock' = "append_users"
            /\ decArg' = u
            /\ UNCHANGED sessVars
    /\ UNCHANGED <<aiPc, aiJoins, firing, alert, winner_match, regVars>>

UserDecidedAppendUsers ==
    /\ lock = "append_users"
    /\ Apply(user_decided_append_users(Cur, decArg))
    /\ lock' = "append_online"
    /\ UNCHANGED <<decArg, aiPc, aiJoins, firing, alert, winner_match, regVars>>

UserDecidedAppendOnline ==
    /\ lock = "append_online"
    /\ Apply(user_decided_append_online(Cur))
    /\ lock' = "if_waiting"
    /\ UNCHANGED <<decArg, aiPc, aiJoins, firing, alert, winner_match, regVars>>

UserDecidedIfWaiting ==
    /\ lock = "if_waiting"
    /\ Apply(user_decided_if_waiting(Begin(Cur, "user_decided")))
    /\ lock' = "free"
    /\ decArg' = 0
    /\ UNCHANGED <<aiPc, aiJoins, firing, alert, winner_match, regVars>>

UserConnected(u) ==
    /\ lock = "free"
    /\ Apply(user_connected(Begin(Cur, "user_connected"), u))
    /\ UNCHANGED <<ctlVars, regVars>>

AiAppendUsers ==
    /\ aiPc = "idle"
    /\ aiJoins < MaxAiJoins
    /\ users' = Append(users, AI_ID)
    /\ aiPc' = "append_online"
    /\ aiJoins' = aiJoins + 1
    /\ UNCHANGED <<stage, online, match_process, scores, waiting_process,
                   orphans, started, wins, report, loses, kicked, roster,
                   room_deleted, in_dict, ret>>
    /\ UNCHANGED <<lock, decArg, firing, alert, winner_match, regVars>>

AiAppendOnline ==
    /\ aiPc = "append_online"
    /\ online' = Append(online, TRUE)
    /\ aiPc' = "lock"
    /\ UNCHANGED <<stage, users, match_process, scores, waiting_process,
                   orphans, started, wins, report, loses, kicked, roster,
                   room_deleted, in_dict, ret>>
    /\ UNCHANGED <<lock, decArg, aiJoins, firing, alert, winner_match, regVars>>

AiLocked ==
    /\ aiPc = "lock"
    /\ lock = "free"
    /\ Apply(ai_connected_locked(Begin(Cur, "ai_connected")))
    /\ aiPc' = "idle"
    /\ UNCHANGED <<lock, decArg, aiJoins, firing, alert, winner_match, regVars>>

\* the grace period elapses: the timer thread calls timed_out, which waits
\* for the lock
TimerFire ==
    /\ waiting_process = "armed"
    /\ ~firing
    /\ waiting_process' = "fired"
    /\ firing' = TRUE
    /\ UNCHANGED <<stage, users, online, match_process, scores, orphans,
                   started, wins, report, loses, kicked, roster,
                   room_deleted, in_dict, ret>>
    /\ UNCHANGED <<lock, decArg, aiPc, aiJoins, alert, winner_match, regVars>>

TimedOut ==
    /\ firing
    /\ lock = "free"
    /\ Apply(timed_out(Begin(Cur, "timed_out")))
    /\ firing' = FALSE
    /\ UNCHANGED <<lock, decArg, aiPc, aiJoins, alert, winner_match, regVars>>

UserDisconnected(u) ==
    /\ lock = "free"
    /\ Apply(user_disconnected(Begin(Cur, "user_disconnected"), u))
    /\ UNCHANGED <<ctlVars, regVars>>

\* the runner of match_process reaches the winning score for seat w and calls
\* alert_winner(w), which waits for the lock
RunnerConcluded(w) ==
    /\ match_process = "running"
    /\ alert = -1
    /\ match_process' = "concluded"
    /\ scores' = IF w = 0 THEN <<MaxScore, 0>> ELSE <<0, MaxScore>>
    /\ alert' = w
    /\ UNCHANGED <<stage, users, online, waiting_process, orphans, started,
                   wins, report, loses, kicked, roster, room_deleted, in_dict,
                   ret>>
    /\ UNCHANGED <<lock, decArg, aiPc, aiJoins, firing, winner_match, regVars>>

\* a runner that was replaced while running reaches the winning score
OrphanConcluded(i) ==
    /\ orphans > 0
    /\ alert = -1
    /\ orphans' = orphans - 1
    /\ alert' = i
    /\ UNCHANGED <<stage, users, online, match_process, scores,
                   waiting_process, started, wins, report, loses, kicked, roster,
                   room_deleted, in_dict, ret>>
    /\ UNCHANGED <<lock, decArg, aiPc, aiJoins, firing, winner_match, regVars>>

AlertWinner ==
    /\ alert # -1
    /\ lock = "free"
    /\ Apply(alert_winner(Begin(Cur, "alert_winner"), alert))
    /\ alert' = -1
    /\ UNCHANGED <<lock, decArg, aiPc, aiJoins, firing, winner_match, regVars>>

Next ==
    \/ \E u \in Humans : UserDecidedEnter(u)
    \/ UserDecidedAppendUsers
    \/ UserDecidedAppendOnline
    \/ UserDecidedIfWaiting
    \/ \E u \in Humans : UserConnected(u)
    \/ AiAppendUsers
    \/ AiAppendOnline
    \/ AiLocked
    \/ TimerFire
    \/ TimedOut
    \/ \E u \in Humans \cup {AI_ID} : UserDisconnected(u)
    \/ \E w \in 0..1 : RunnerConcluded(w)
    \/ \E i \in 0..1 : OrphanConcluded(i)
    \/ AlertWinner

Spec == Init /\ [][Next]_vars

\* the threads that are inside the coordinator once started: the timer thread
\* (threading.Timer, then timed_out), a caller between the statements of
\* user_decided, and a caller between the statements of ai_connected
TimerThread == TimerFire \/ TimedOut

DecideThread ==
    UserDecidedAppendUsers \/ UserDecidedAppendOnline \/ UserDecidedIfWaiting

AiThread == AiAppendOnline \/ AiLocked

\* An armed timer that is not cancelled fires and timed_out is handled, a
\* pending alert_winner is handled, and a handler that has been entered runs
\* to completion.  Calls from outside (decide, connect, disconnect, ai join,
\* the runner reaching its score) are not forced.
SpecFair ==
    /\ Spec
    /\ WF_vars(TimerThread)
    /\ WF_vars(AlertWinner)
    /\ WF_vars(DecideThread)
    /\ WF_vars(AiThread)

\* ------------------------------------------- match_decided, per context
\* `if room_id not in match_dict.get_dict()`
RegCheck(c) ==
    /\ regPc[c] = "idle"
    /\ regPc' = [regPc EXCEPT ![c] = IF regDict = 0 THEN "store" ELSE "decide"]
    /\ UNCHANGED <<regDict, regObjs, sessVars, ctlVars>>

\* `match_dict[room_id] = Match(match)`
RegStore(c) ==
    /\ regPc[c] = "store"
    /\ regObjs' = Append(regObjs, MatchInit)
    /\ regDict' = Len(regObjs) + 1
    /\ regPc' = [regPc EXCEPT ![c] = "decide"]
    /\ UNCHANGED <<sessVars, ctlVars>>

\* `match_dict[room_id].user_decided(user)`; context c decides competitor c
RegDecide(c) ==
    /\ regPc[c] = "decide"
    /\ regObjs' = [regObjs EXCEPT ![regDict] = user_decided(Begin(@, "user_decided"), c)]
    /\ regPc' = [regPc EXCEPT ![c] = "done"]
    /\ UNCHANGED <<regDict, sessVars, ctlVars>>

NextRegistry ==
    \/ \E c \in 1..NumContexts : RegCheck(c)
    \/ \E c \in 1..NumContexts : RegStore(c)
    \/ \E c \in 1..NumContexts : RegDecide(c)

SpecRegistry == Init /\ [][NextRegistry]_vars

TypeOK ==
    /\ stage \in NOT_STARTED..FINISHED
    /\ Len(users) <= MaxUsers
    /\ Len(online) <= Len(users)
    /\ lock \in {"free", "append_users", "append_online", "if_waiting"}
    /\ aiPc \in {"idle", "append_online", "lock"}

\* ----------------------------------------------------- derived notions
\* the Waiting Timer is started and neither stopped nor fired-and-handled
TimerArmed ==
    \/ waiting_process = "armed"
    \/ waiting_process = "fired" /\ firing

BothOnline == Len(online) >= 2 /\ online[1] /\ online[2]

Winners == {i \in Seats : wins[i] > 0}

\* what a handler may change besides its own outcome
effectVars == <<stage, users, online, match_process, scores, waiting_process,
                orphans, started, wins, report, loses, kicked, roster,
                room_deleted, in_dict>>

\* =============================================================== claims

\* C1: over every sequence or interleaving of the six events the stage
\* never moves backward in NOT_STARTED < WAITING < MATCH < FINISHED.
C1_StageNeverBackward == [][stage' >= stage]_vars

\* C2: resolve-winner (__set_win) is run for at most one of the seats of a
\* session: a session never credits two different winners.
C2_AtMostOneWinner == Cardinality(Winners) <= 1

\* C3: for each seat, resolve-winner (__set_win) executes at most once.
C3_WinOncePerSeat == \A i \in Seats : wins[i] <= 1

\* C4: concurrent first references to a match id create exactly one Match
\* and no user_decided lands on a Match that is not the registered one.
C4_OneCoordinator ==
    /\ Len(regObjs) <= 1
    /\ \A k \in 1..Len(regObjs) : k # regDict => regObjs[k].users = <<>>

\* C5: every handler reads and writes users, online and stage under the
\* session lock, so whenever the lock is free no transition is half applied:
\* every bound seat has its online flag.
C5_NoHalfAppliedTransition == lock = "free" => Len(online) = Len(users)

\* C6: at most two seats are ever bound, and between handlers every bound
\* seat has exactly one online flag.
C6_AtMostTwoSeats ==
    /\ Len(users) <= 2
    /\ (lock = "free" /\ aiPc = "idle") => Len(online) = Len(users)

\* C7: user_decided on a session whose two seats are bound returns False
\* and leaves users, online, stage and the Waiting Timer unchanged.
C7_FullDecideRejected ==
    [][\A u \in Humans :
          (UserDecidedEnter(u) /\ Len(users) >= 2)
              => /\ ret' = <<"user_decided", "False">>
                 /\ UNCHANGED <<effectVars, lock, firing>>]_vars

C7_Witness ==
    /\ ret = <<"user_decided", "False">>
    /\ Len(users) = 2
    /\ stage = WAITING
    /\ waiting_process = "armed"

\* C8: the Waiting Timer is armed if and only if the stage is WAITING.
C8_TimerArmedIffWaiting == TimerArmed <=> (stage = WAITING)

\* C9: timed_out handled when the stage is not WAITING, or when both seats
\* are online, changes no session state, resolves nobody and disconnects
\* nobody.
C9_StrayFireHarmless ==
    [][(TimedOut /\ (stage # WAITING \/ BothOnline))
          => UNCHANGED effectVars]_vars

C9_Witness ==
    /\ ret = <<"timed_out", "None">>
    /\ stage = MATCH
    /\ BothOnline
    /\ Winners = {}
    /\ waiting_process = "stopped"

OfflineSeat(u) ==
    /\ get_user_idx(users, u) # -1
    /\ PyOk(online, get_user_idx(users, u))
    /\ ~PyAt(online, get_user_idx(users, u))

\* C11: user_connected for a bound seat that is not online, handled in stage
\* FINISHED, marks the seat online and runs __set_win for it once, reporting
\* zero-zero when no runner was ever started; the stage stays FINISHED and
\* neither the Waiting Timer nor a Match Runner is started.  A further
\* user_connected for that seat credits nothing.
C11_LateJoinerWins ==
    [][\A u \in Humans :
          LET idx == get_user_idx(users, u) IN
          /\ (UserConnected(u) /\ stage = FINISHED /\ OfflineSeat(u))
                 => /\ online' = [online EXCEPT ![idx + 1] = TRUE]
                    /\ wins' = [wins EXCEPT ![idx] = @ + 1]
                    /\ report'.winner_id = u
                    /\ started = 0
                          => /\ report'.player1_score = 0
                             /\ report'.player2_score = 0
                    /\ stage' = FINISHED
                    /\ UNCHANGED <<waiting_process, match_process, started,
                                   firing, alert, users>>
          /\ (UserConnected(u) /\ idx # -1 /\ PyOk(online, idx)
                 /\ PyAt(online, idx))
                 => UNCHANGED effectVars]_vars

C11_Witness ==
    /\ ret = <<"user_connected", "True">>
    /\ stage = FINISHED
    /\ started = 0
    /\ online = <<TRUE, TRUE>>
    /\ wins[1] = 1 /\ wins[0] = 0
    /\ loses[0] = 1
    /\ report = [winner_id |-> users[2], player1_score |-> 0, player2_score |-> 0]
    /\ waiting_process = "stopped"

\* C12: user_disconnected for a bound seat, handled in stage MATCH, stops the
\* runner, sets the stage to FINISHED, runs __set_lose for the disconnecting
\* seat and __set_win for the other seat, so that the session has exactly one
\* winner (the remaining seat) and one loser; alert_winner handled afterwards
\* finds the stage FINISHED and resolves nothing.
C12_DisconnectInMatch ==
    [][/\ \A u \in Humans \cup {AI_ID} :
             LET idx == get_user_idx(users, u) IN
             (UserDisconnected(u) /\ stage = MATCH /\ idx # -1)
                => /\ stage' = FINISHED
                   /\ match_process' # "running"
                   /\ ret'[2] # "raise"
                   /\ idx \in 0..1
                   /\ loses' = [loses EXCEPT ![idx] = @ + 1]
                   /\ wins' = [wins EXCEPT ![1 - idx] = @ + 1]
                   /\ {i \in Seats : wins'[i] > 0} = {1 - idx}
                   /\ {i \in Seats : loses'[i] > 0} = {idx}
       /\ (AlertWinner /\ stage = FINISHED) => UNCHANGED effectVars]_vars

\* the runner's conclusion for seat alert is about to be handled on a session
\* in MATCH whose two seats are bound and online
ConcludedIn2Seats ==
    /\ alert \in 0..1
    /\ stage = MATCH
    /\ Len(users) = 2
    /\ BothOnline

\* C13: on a session with no next match, both seats decided and connected,
\* alert_winner(w) sets the stage to FINISHED, reports the competitor of seat w
\* as winner with the runner's scores, deletes the bracket room, and the
\* transport sessions of both the winner and the loser are disconnected.
C13_FinalWinnerDisconnected ==
    [][(AlertWinner /\ ConcludedIn2Seats /\ ~winner_match)
          => /\ stage' = FINISHED
             /\ report' = [winner_id |-> users[alert + 1],
                            player1_score |-> scores[1],
                            player2_score |-> scores[2]]
             /\ room_deleted' = room_deleted + 1
             /\ kicked'[1 - alert] = kicked[1 - alert] + 1
             /\ kicked'[alert] = kicked[alert] + 1]_vars

C15_UnknownIdentityIgnored ==
    [][\A u \in Humans \cup {AI_ID} :
          ((UserConnected(u) \/ UserDisconnected(u))
             /\ get_user_idx(users, u) = -1)
             => /\ UNCHANGED effectVars
                /\ ret'[2] # "raise"]_vars

\* a seat has been resolved as loser, no winner is recorded and the session
\* is still registered
ForfeitPending ==
    /\ in_dict
    /\ Winners = {}
    /\ \E i \in Seats : loses[i] > 0

\* user_disconnected in WAITING for an online seat
DisconnectOnlineInWaiting ==
    \A u \in Humans \cup {AI_ID} :
       LET idx == get_user_idx(users, u) IN
       (UserDisconnected(u) /\ stage = WAITING /\ idx # -1
          /\ PyOk(online, idx) /\ PyAt(online, idx))
          => /\ ~TimerArmed'
             /\ stage' = FINISHED
             /\ loses' = [loses EXCEPT ![idx] = @ + 1]
             /\ UNCHANGED <<wins, kicked, in_dict, roster, room_deleted,
                            report, users, online, match_process>>
             /\ ForfeitPending'

\* user_disconnected in WAITING for a seat that is not online
DisconnectOfflineInWaiting ==
    \A u \in Humans \cup {AI_ID} :
       (UserDisconnected(u) /\ stage = WAITING /\ OfflineSeat(u))
          => UNCHANGED effectVars

\* from a pending forfeit the only step that records a winner or removes the
\* session is the connect of an offline seat, which credits that seat
OnlyLateJoinerResolves ==
    ForfeitPending
       => \/ UNCHANGED <<wins, in_dict>>
          \/ \E u \in Humans :
                /\ UserConnected(u)
                /\ OfflineSeat(u)
                /\ wins' = [wins EXCEPT ![get_user_idx(users, u)] = @ + 1]
                /\ ~in_dict'

\* C16: when the online seat disconnects in WAITING the timer is cancelled,
\* the stage becomes FINISHED and __set_lose runs for that seat only; no winner
\* is recorded and the session stays registered until the opponent connects,
\* which credits the opponent; a disconnect in WAITING by a seat that is not
\* online changes nothing.
C16_WaitingDisconnect ==
    [][/\ DisconnectOnlineInWaiting
       /\ DisconnectOfflineInWaiting
       /\ OnlyLateJoinerResolves]_vars

\* seats whose transport session the coordinator has disconnected
Kicked == {i \in Seats : kicked[i] > 0}

\* a seat is disconnected only in the step that resolves it as loser, never
\* by user_disconnected and never after it has already lost (in particular
\* not after it lost by disconnecting itself)
KickOnlyFreshLoser ==
    [][/\ \A i \in Seats :
             kicked'[i] # kicked[i]
                => /\ loses[i] = 0
                   /\ loses'[i] = 1
       /\ \A u \in Humans \cup {AI_ID} :
             UserDisconnected(u) => kicked' = kicked]_vars

\* C17: over any sequence of events sio_disconnect is issued for at most one
\* seat of a session and at most once for it.
C17_KickedAtMostOnce ==
    /\ Cardinality(Kicked) <= 1
    /\ \A i \in Seats : kicked[i] <= 1

\* C18: __set_stage_match runs at most once per session, so at most one
\* Match Runner is ever created and started, whatever the order of
\* ai_connected and user_connected.
C18_AtMostOneRunner == started <= 1

\* C19: in every state with stage WAITING exactly two seats are bound and
\* exactly one of them is online, so timed_out handled in WAITING finds an
\* online winner and an offline loser and its 'both online' and 'not two
\* seats' branches are dead.
C19_WaitingOneOnline ==
    stage = WAITING
       => /\ Len(users) = 2
          /\ Len(online) = 2
          /\ online[1] # online[2]

\* C20: when an armed Waiting Timer that is not cancelled eventually fires
\* and timed_out is handled, every session that enters WAITING eventually
\* leaves it (for MATCH or FINISHED).
C20_WaitingEnds == (stage = WAITING) ~> (stage # WAITING)

C20_Witness ==
    /\ ret = <<"timed_out", "None">>
    /\ stage = FINISHED
    /\ waiting_process = "fired"
    /\ ~firing
    /\ \E i \in 0..1 : wins[i] = 1 /\ loses[1 - i] = 1 /\ kicked[1 - i] = 1

====
